---- MODULE Spec2Model ----
(***************************************************************************)
(* Model of ci_scripts/get_version.py: the get_version function and the    *)
(* script's entry block, together with the behaviour of the standard       *)
(* configparser.ConfigParser that get_version delegates to (read, section  *)
(* and option lookup, BasicInterpolation).                                 *)
(*                                                                         *)
(* Text is modelled as a sequence of one-character strings.  A file is a   *)
(* sequence of lines; a line is a section header, an option line           *)
(* "key = value", or a line that is neither.  Lines are not indented, so   *)
(* there are no continuation lines, and carry no comments.                 *)
(***************************************************************************)
EXTENDS Integers, Sequences, FiniteSets, TLC

(* Longest file, in lines, placed at CONFIG_FILE. *)
MaxLines == 3

----------------------------------------------------------------------------
(* Names and literals of the program. *)

CONFIG_FILE == "Cargo.toml"

(* A path, other than CONFIG_FILE, that a caller may pass as sys.argv[1]. *)
ArgPath == "alt/Cargo.toml"

Prog == "get_version.py"

Paths == {CONFIG_FILE, ArgPath}

PACKAGE == "package"

VERSION == <<"v", "e", "r", "s", "i", "o", "n">>

(* configparser.DEFAULTSECT *)
DEFAULTSECT == "DEFAULT"

(* configparser.MAX_INTERPOLATION_DEPTH *)
MAX_INTERPOLATION_DEPTH == 10

(* Python's None, for names and exception slots. *)
None == "None"

Q == "\""

NL == "\n"

----------------------------------------------------------------------------
(* File contents the model draws from. *)

Sect(s) == [kind |-> "sect", sect |-> s, key |-> <<>>, val |-> <<>>]

Opt(k, v) == [kind |-> "opt", sect |-> "", key |-> k, val |-> v]

Junk == [kind |-> "junk", sect |-> "", key |-> <<>>, val |-> <<>>]

KeyN == <<"n">>

V_q100 == <<Q, "1", ".", "0", ".", "0", Q>>

V_alpha == <<Q, "0", ".", "0", ".", "1", "-", "a", "l", "p", "h", "a", Q>>

V_qq == <<Q, Q>>

V_100 == <<"1", ".", "0", ".", "0">>

V_1 == <<"1">>

V_empty == <<>>

(* "%(n)s" in quotes: a reference to option n *)
V_ref == <<Q, "%", "(", "n", ")", "s", Q>>

(* %(n)s : as the value of n, a reference to itself *)
V_self == <<"%", "(", "n", ")", "s">>

V_a == <<"a">>

(* "%%" in quotes: an escaped percent sign *)
V_pp == <<Q, "%", "%", Q>>

(* "1%" in quotes: a percent sign followed by neither % nor ( *)
V_pct == <<Q, "1", "%", Q>>

VersionValues == {V_q100, V_qq, V_100, V_1, V_empty, V_ref, V_pp, V_pct}

SectionNames == {PACKAGE, DEFAULTSECT, "dependencies"}

Lines ==
    {Sect(s) : s \in SectionNames}
        \cup {Opt(VERSION, v) : v \in VersionValues}
        \cup {Opt(KeyN, V_a), Opt(KeyN, V_self)}
        \cup {Junk}

SeqsUpTo(S, n) == UNION {[1..k -> S] : k \in 0..n}

Absent == [exists |-> FALSE, readable |-> FALSE, lines |-> <<>>]

Unreadable == [exists |-> TRUE, readable |-> FALSE, lines |-> <<>>]

File(ls) == [exists |-> TRUE, readable |-> TRUE, lines |-> ls]

(* What may be at CONFIG_FILE. *)
ConfigFiles == {Absent, Unreadable} \cup {File(ls) : ls \in SeqsUpTo(Lines, MaxLines)}

(* What may be at ArgPath: nothing, the manifest of the explicit-path       *)
(* example, a manifest without a package section, a malformed file.        *)
ArgFiles ==
    {Absent,
     File(<<Sect(PACKAGE), Opt(VERSION, V_alpha)>>),
     File(<<Sect("dependencies"), Opt(KeyN, V_a)>>),
     File(<<Sect(PACKAGE), Junk>>)}

(* sys.argv *)
Argvs == {<<Prog>>, <<Prog, ArgPath>>, <<Prog, CONFIG_FILE>>}

----------------------------------------------------------------------------
(* Dictionaries. *)

EmptyMap == [k \in {} |-> <<>>]

Put(m, k, v) == [x \in DOMAIN m \cup {k} |-> IF x = k THEN v ELSE m[x]]

(* collections.ChainMap(first, second): first wins *)
ChainMap(first, second) ==
    [x \in DOMAIN first \cup DOMAIN second |->
        IF x \in DOMAIN first THEN first[x] ELSE second[x]]

----------------------------------------------------------------------------
(* configparser.ConfigParser() : a fresh strict parser *)

NewParser ==
    [sections |-> EmptyMap, defaults |-> EmptyMap, sectname |-> None,
     addedSects |-> {}, addedOpts |-> {}, e |-> FALSE, raised |-> None]

(* cursect[optname] = optval, cursect being the defaults or a section *)
SetOption(st, k, v) ==
    IF st.sectname = DEFAULTSECT
    THEN [st EXCEPT !.defaults = Put(@, k, v)]
    ELSE [st EXCEPT !.sections = Put(@, st.sectname, Put(st.sections[st.sectname], k, v))]

(* One iteration of the line loop of RawConfigParser._read *)
ReadLine(st, line) ==
    IF st.raised # None THEN st
    ELSE IF line.kind = "sect" THEN
        IF line.sect \in DOMAIN st.sections THEN
            IF line.sect \in st.addedSects
            THEN [st EXCEPT !.raised = "DuplicateSectionError"]
            ELSE [st EXCEPT !.sectname = line.sect,
                            !.addedSects = @ \cup {line.sect}]
        ELSE IF line.sect = DEFAULTSECT THEN
            [st EXCEPT !.sectname = DEFAULTSECT]
        ELSE
            [st EXCEPT !.sectname = line.sect,
                       !.sections = Put(@, line.sect, EmptyMap),
                       !.addedSects = @ \cup {line.sect}]
    ELSE IF st.sectname = None THEN
        [st EXCEPT !.raised = "MissingSectionHeaderError"]
    ELSE IF line.kind = "opt" THEN
        IF <<st.sectname, line.key>> \in st.addedOpts
        THEN [st EXCEPT !.raised = "DuplicateOptionError"]
        ELSE [SetOption(st, line.key, line.val) EXCEPT
                 !.addedOpts = @ \cup {<<st.sectname, line.key>>}]
    ELSE
        [st EXCEPT !.e = TRUE]

RECURSIVE ReadLines(_, _)
ReadLines(st, ls) ==
    IF ls = <<>> THEN st ELSE ReadLines(ReadLine(st, Head(ls)), Tail(ls))

(* RawConfigParser._read : the loop, then the deferred ParsingError *)
ParserRead(st, ls) ==
    LET after == ReadLines(st, ls)
    IN  IF after.raised = None /\ after.e
        THEN [after EXCEPT !.raised = "ParsingError"]
        ELSE after

(* open(filename) : the lines, or an OSError *)
Open(files, filename) ==
    IF ~files[filename].exists THEN [err |-> "FileNotFoundError", lines |-> <<>>]
    ELSE IF ~files[filename].readable THEN [err |-> "PermissionError", lines |-> <<>>]
    ELSE [err |-> None, lines |-> files[filename].lines]

(* RawConfigParser.read(filename) : a file that cannot be opened is skipped *)
ConfigRead(st, files, filename) ==
    LET fp == Open(files, filename)
    IN  IF fp.err # None THEN st ELSE ParserRead(st, fp.lines)

----------------------------------------------------------------------------
(* Lookup: config["package"]["version"] *)

Ok(v) == [exc |-> None, value |-> v]

Raise(kind) == [exc |-> kind, value |-> <<>>]

Contains(s, c) == \E i \in 1..Len(s) : s[i] = c

(* s.find(c) from position from (1-based); 0 when absent *)
Find(s, c, from) ==
    IF \E i \in from..Len(s) : s[i] = c
    THEN CHOOSE i \in from..Len(s) : s[i] = c /\ \A j \in from..(i - 1) : s[j] # c
    ELSE 0

(* BasicInterpolation._KEYCRE.match(rest), rest starting with "%(" :        *)
(* the position of the closing parenthesis, 0 when there is no match.      *)
KeyMatch(rest) ==
    LET close == Find(rest, ")", 3)
    IN  IF close >= 4 /\ Len(rest) > close /\ rest[close + 1] = "s" THEN close ELSE 0

(* BasicInterpolation._interpolate_some *)
RECURSIVE InterpolateSome(_, _, _)
InterpolateSome(rest, map, depth) ==
    IF depth > MAX_INTERPOLATION_DEPTH THEN Raise("InterpolationDepthError")
    ELSE IF rest = <<>> THEN Ok(<<>>)
    ELSE LET p == Find(rest, "%", 1) IN
        IF p = 0 THEN Ok(rest)
        ELSE LET head == SubSeq(rest, 1, p - 1)
                 r == SubSeq(rest, p, Len(rest))
                 c == IF Len(r) >= 2 THEN r[2] ELSE ""
             IN  IF c = "%" THEN
                     LET more == InterpolateSome(SubSeq(r, 3, Len(r)), map, depth)
                     IN  IF more.exc # None THEN more
                         ELSE Ok(head \o <<"%">> \o more.value)
                 ELSE IF c = "(" THEN
                     LET close == KeyMatch(r) IN
                     IF close = 0 THEN Raise("InterpolationSyntaxError")
                     ELSE LET var == SubSeq(r, 3, close - 1)
                              rest2 == SubSeq(r, close + 2, Len(r))
                          IN  IF var \notin DOMAIN map
                              THEN Raise("InterpolationMissingOptionError")
                              ELSE LET v == map[var]
                                       inner == IF Contains(v, "%")
                                                THEN InterpolateSome(v, map, depth + 1)
                                                ELSE Ok(v)
                                       more == InterpolateSome(rest2, map, depth)
                                   IN  IF inner.exc # None THEN inner
                                       ELSE IF more.exc # None THEN more
                                       ELSE Ok(head \o inner.value \o more.value)
                 ELSE Raise("InterpolationSyntaxError")

(* BasicInterpolation.before_get *)
BeforeGet(value, map) == InterpolateSome(value, map, 1)

(* RawConfigParser.has_option *)
HasOption(st, section, option) ==
    IF section = DEFAULTSECT THEN option \in DOMAIN st.defaults
    ELSE IF section \notin DOMAIN st.sections THEN FALSE
    ELSE option \in DOMAIN st.sections[section] \/ option \in DOMAIN st.defaults

(* RawConfigParser._unify_values : the section's options over the defaults *)
UnifyValues(st, section) ==
    IF section = DEFAULTSECT THEN st.defaults
    ELSE ChainMap(st.sections[section], st.defaults)

(* RawConfigParser.get(section, option), the option known to exist *)
ParserGet(st, section, option) ==
    LET d == UnifyValues(st, section) IN BeforeGet(d[option], d)

(* config[section][option] : RawConfigParser.__getitem__, then              *)
(* SectionProxy.__getitem__                                                *)
GetItem(st, section, option) ==
    IF section # DEFAULTSECT /\ section \notin DOMAIN st.sections THEN Raise("KeyError")
    ELSE IF ~HasOption(st, section, option) THEN Raise("KeyError")
    ELSE ParserGet(st, section, option)

----------------------------------------------------------------------------
(* get_version *)

(* A variant that reads a file of another name. *)
ReadTargetOtherFile(config_file) == ArgPath

(* The file name get_version hands to config.read: the module constant,    *)
(* whatever the config_file parameter holds.                               *)
ReadTarget(config_file) == CONFIG_FILE

(* get_version(config_file) : the value returned or the exception raised,  *)
(* and the file name that was given to config.read.                        *)
get_version(files, config_file) ==
    LET target == ReadTarget(config_file)
        config == ConfigRead(NewParser, files, target)
        got == IF config.raised # None THEN Raise(config.raised)
               ELSE GetItem(config, PACKAGE, VERSION)
    IN  [exc |-> got.exc, value |-> got.value, opened |-> target]

----------------------------------------------------------------------------
(* The entry block *)

(* Python's s[start:stop] with start >= 0 and stop < 0 *)
Slice(s, start, stop) ==
    LET hi == IF Len(s) + stop < 0 THEN 0 ELSE Len(s) + stop
        lo == IF start > Len(s) THEN Len(s) ELSE start
    IN  IF lo >= hi THEN <<>> ELSE SubSeq(s, lo + 1, hi)

(* Variants of the strip: only a quoted value, only a value of two or     *)
(* more characters.                                                        *)
StripEndsIfQuoted(v) ==
    IF Len(v) >= 2 /\ v[1] = Q /\ v[Len(v)] = Q THEN Slice(v, 1, 0 - 1) ELSE v

StripEndsIfLong(v) == IF Len(v) >= 2 THEN Slice(v, 1, 0 - 1) ELSE v

(* version[1:-1] *)
StripEnds(v) == Slice(v, 1, 0 - 1)

(* The parameter get_version is called with: sys.argv[1], or the default. *)
ChosenPath(args) == IF Len(args) > 1 THEN args[2] ELSE CONFIG_FILE

(* A variant in which the call is wrapped in a handler that carries on   *)
(* with an empty version.                                                  *)
AfterCallCaught(result) ==
    [pc |-> "returned", exc |-> None,
     version |-> IF result.exc # None THEN <<>> ELSE result.value]

(* Where control goes after the call of get_version: nothing catches. *)
AfterCall(result) ==
    IF result.exc # None
    THEN [pc |-> "raised", version |-> <<>>, exc |-> result.exc]
    ELSE [pc |-> "returned", version |-> result.value, exc |-> None]

VARIABLES files, argv, pc, config_file, opened, version, exc, stdout, stderr, exit_status

vars == <<files, argv, pc, config_file, opened, version, exc, stdout, stderr, exit_status>>

Init ==
    /\ files \in {[p \in Paths |-> IF p = CONFIG_FILE THEN c ELSE a] :
                      c \in ConfigFiles, a \in ArgFiles}
    /\ argv \in Argvs
    /\ pc = "main"
    /\ config_file = None
    /\ opened = None
    /\ version = <<>>
    /\ exc = None
    /\ stdout = <<>>
    /\ stderr = <<>>
    /\ exit_status = <<>>

(* version = ""; then the argument check that picks the call *)
Start ==
    /\ pc = "main"
    /\ pc' = "call"
    /\ version' = <<>>
    /\ config_file' = ChosenPath(argv)
    /\ UNCHANGED <<files, argv, opened, exc, stdout, stderr, exit_status>>

(* version = get_version(...) *)
GetVersion ==
    /\ pc = "call"
    /\ LET result == get_version(files, config_file)
           next == AfterCall(result)
       IN  /\ opened' = result.opened
           /\ pc' = next.pc
           /\ version' = next.version
           /\ exc' = next.exc
    /\ UNCHANGED <<files, argv, config_file, stdout, stderr, exit_status>>

(* version = version[1:-1] *)
Strip ==
    /\ pc = "returned"
    /\ version' = StripEnds(version)
    /\ pc' = "stripped"
    /\ UNCHANGED <<files, argv, config_file, opened, exc, stdout, stderr, exit_status>>

(* print(version), the last statement: the interpreter then exits with 0 *)
PrintVersion ==
    /\ pc = "stripped"
    /\ stdout' = stdout \o version \o <<NL>>
    /\ exit_status' = <<0>>
    /\ pc' = "exited"
    /\ UNCHANGED <<files, argv, config_file, opened, version, exc, stderr>>

(* An exception nobody caught: traceback on standard error, exit status 1 *)
Uncaught ==
    /\ pc = "raised"
    /\ stderr' = stderr \o <<"Traceback (most recent call last):", exc>>
    /\ exit_status' = <<1>>
    /\ pc' = "exited"
    /\ UNCHANGED <<files, argv, config_file, opened, version, exc, stdout>>

Next == Start \/ GetVersion \/ Strip \/ PrintVersion \/ Uncaught

Spec == Init /\ [][Next]_vars

----------------------------------------------------------------------------
(* Vocabulary of the properties, stated on the files and the command line  *)
(* rather than through the parser.                                         *)

Terminal == pc = "exited"

HasArg == Len(argv) > 1

(* The manifest path of a run: the argument, or Cargo.toml without one. *)
ManifestPath == IF HasArg THEN argv[2] ELSE "Cargo.toml"

Manifest == files[ManifestPath]

Readable(f) == f.exists /\ f.readable

(* The file is read without any error of the parser. *)
Parses(f) == Readable(f) /\ ParserRead(NewParser, f.lines).raised = None

HasPackageSection(ls) == \E i \in 1..Len(ls) : ls[i] = Sect("package")

(* The raw values a file gives to version inside a package section. *)
PackageVersions(ls) ==
    {ls[j].val : j \in {j \in 1..Len(ls) :
        /\ ls[j].kind = "opt"
        /\ ls[j].key = VERSION
        /\ \E i \in 1..(j - 1) :
              /\ ls[i] = Sect("package")
              /\ \A k \in (i + 1)..(j - 1) : ls[k].kind # "sect"}}

(* A line that is neither header nor option, or an option before any header. *)
Malformed(ls) ==
    \/ \E i \in 1..Len(ls) : ls[i].kind = "junk"
    \/ (ls # <<>> /\ ls[1].kind # "sect")

(* v without its first and its last character *)
DropFirstLast(v) == IF Len(v) <= 2 THEN <<>> ELSE [i \in 1..(Len(v) - 2) |-> v[i + 1]]

(* What get_version returned or raised in this run. *)
Extracted == get_version(files, config_file)

OSErrors == {"FileNotFoundError", "PermissionError"}

ReadErrors ==
    {"MissingSectionHeaderError", "ParsingError", "DuplicateSectionError",
     "DuplicateOptionError"}

(* The outcome of the run on the two-line manifest [package] / version = v *)
(* at Cargo.toml, no argument given.                                       *)
ReferenceOutcome(v) ==
    LET fs == [p \in Paths |->
                  IF p = CONFIG_FILE THEN File(<<Sect("package"), Opt(VERSION, v)>>)
                  ELSE Absent]
        r == get_version(fs, CONFIG_FILE)
    IN  IF r.exc # None THEN [stdout |-> <<>>, exit_status |-> <<1>>]
        ELSE [stdout |-> StripEnds(r.value) \o <<NL>>, exit_status |-> <<0>>]

----------------------------------------------------------------------------
(* C1: with an argument P, the file opened and parsed is the file at P,    *)
(* and what a successful run prints is the package.version value of the    *)
(* file at P without its first and last character, never Cargo.toml's.     *)
C1_ArgumentFileIsRead ==
    (Terminal /\ HasArg) =>
        /\ opened = argv[2]
        /\ (exc = None =>
              \E v \in PackageVersions(files[argv[2]].lines) :
                  stdout = DropFirstLast(v) \o <<NL>>)

C3_MissingManifestFails ==
    (Terminal /\ ~Manifest.exists) => (exit_status # <<0>> /\ stdout = <<>>)

(* C4: when the manifest does not exist or cannot be opened, get_version   *)
(* fails with a file-access error, not with the missing-key error.  Stated *)
(* for the runs whose manifest path is Cargo.toml, the file that is read.  *)
C4_MissingManifestIsFileError ==
    (/\ pc \in {"raised", "returned", "stripped", "exited"}
     /\ ManifestPath = "Cargo.toml"
     /\ ~Readable(Manifest))
        => exc \in OSErrors

(* C5: a manifest that parses but has no package section, or a package     *)
(* section without a version key, makes get_version fail with the          *)
(* missing-key error, the run ending non-zero with nothing on standard     *)
(* output, whatever else the file holds.  Stated for the runs whose        *)
(* manifest path is Cargo.toml, the file that is read.                     *)
C5_MissingKeyFails ==
    (/\ Terminal
     /\ ManifestPath = "Cargo.toml"
     /\ Parses(Manifest)
     /\ (~HasPackageSection(Manifest.lines) \/ PackageVersions(Manifest.lines) = {}))
        => (exc = "KeyError" /\ exit_status # <<0>> /\ stdout = <<>>)

(* C6: without an argument the file read is Cargo.toml, and when that file *)
(* is a well-formed manifest whose package section has version = "1.0.0"   *)
(* the run prints 1.0.0 and exits 0.                                       *)
C6_DefaultManifest ==
    (Terminal /\ ~HasArg) =>
        /\ opened = "Cargo.toml"
        /\ (Parses(files["Cargo.toml"])
               /\ V_q100 \in PackageVersions(files["Cargo.toml"].lines)
            => (stdout = <<"1", ".", "0", ".", "0", NL>> /\ exit_status = <<0>>))

C6_Witness ==
    /\ Terminal
    /\ ~HasArg
    /\ V_q100 \in PackageVersions(files["Cargo.toml"].lines)
    /\ Len(files["Cargo.toml"].lines) > 2
    /\ stdout = <<"1", ".", "0", ".", "0", NL>>

(* C7: the outcome depends on the package.version value alone: every       *)
(* manifest that parses and has a package section with raw version v ends  *)
(* as the two-line manifest [package] / version = v does.  Stated for the  *)
(* runs whose manifest path is Cargo.toml, the file that is read.          *)
C7_OnlyVersionInfluences ==
    (Terminal /\ ManifestPath = "Cargo.toml" /\ Parses(Manifest)) =>
        \A v \in PackageVersions(Manifest.lines) :
            [stdout |-> stdout, exit_status |-> exit_status] = ReferenceOutcome(v)

(* C8: a manifest that does not conform to the section/key-value syntax    *)
(* makes get_version fail with a parse error that nothing catches: the run *)
(* ends non-zero with nothing on standard output.                          *)
C8_MalformedManifestFails ==
    (Terminal /\ Readable(Manifest) /\ Malformed(Manifest.lines)) =>
        (exc \in ReadErrors /\ exit_status # <<0>> /\ stdout = <<>>)

(* C9: a run goes path, extraction, strip, print in that order and always  *)
(* ends, either with exactly one line on standard output and exit 0 or     *)
(* with nothing on standard output and a non-zero exit; standard output is *)
(* written only after extraction succeeded, and an error of extraction is  *)
(* never recovered from.  Ending is stated as: every step moves forward in *)
(* PcOrder, which has no cycle, and a run that has not ended can step.     *)
PcOrder ==
    {<<"main", "call">>, <<"call", "returned">>, <<"call", "raised">>,
     <<"returned", "stripped">>, <<"stripped", "exited">>, <<"raised", "exited">>}

OneLine(out) ==
    /\ out # <<>>
    /\ out[Len(out)] = NL
    /\ \A i \in 1..(Len(out) - 1) : out[i] # NL

(* Some statement is left to run: an action other than the call is        *)
(* enabled, or the call is next and get_version returns or raises.         *)
CanStep ==
    \/ ENABLED Start
    \/ ENABLED Strip
    \/ ENABLED PrintVersion
    \/ ENABLED Uncaught
    \/ (pc = "call" /\ AfterCall(Extracted).pc \in {"returned", "raised"})

C9_Outcome ==
    /\ Terminal =>
          \/ (exc = None /\ exit_status = <<0>> /\ OneLine(stdout))
          \/ (exc # None /\ exit_status = <<1>> /\ stdout = <<>>)
    /\ ~Terminal => (exit_status = <<>> /\ stdout = <<>> /\ CanStep)
    /\ stdout # <<>> => (Extracted.exc = None /\ exc = None)
    /\ (pc \in {"raised", "returned", "stripped", "exited"} /\ Extracted.exc # None)
          => (pc \in {"raised", "exited"} /\ exc = Extracted.exc)

C9_Step ==
    /\ <<pc, pc'>> \in PcOrder
    /\ (exc # None => exc' = exc)

C10_ShortValuePrintsEmptyLine ==
    (pc \in {"stripped", "exited"} /\ Extracted.exc = None /\ Len(Extracted.value) <= 1) =>
        /\ exc = None
        /\ version = <<>>
        /\ (Terminal => (stdout = <<NL>> /\ exit_status = <<0>>))

C10_Witness ==
    /\ Terminal
    /\ Extracted.exc = None
    /\ Len(Extracted.value) = 1
    /\ stdout = <<NL>>
    /\ exit_status = <<0>>

----------------------------------------------------------------------------
(* What the runs have in common whatever the argument: statements about    *)
(* Cargo.toml, the file that is read.                                      *)

CargoToml == files["Cargo.toml"]

(* Cargo.toml missing or unreadable: the missing-key error, exit 1. *)
CargoToml_MissingIsKeyError ==
    (Terminal /\ ~Readable(CargoToml)) =>
        (exc = "KeyError" /\ exit_status = <<1>> /\ stdout = <<>>)

(* Cargo.toml malformed: an error of the parser, exit 1. *)
CargoToml_MalformedFails ==
    (Terminal /\ Readable(CargoToml) /\ Malformed(CargoToml.lines)) =>
        (exc \in ReadErrors /\ exit_status = <<1>> /\ stdout = <<>>)

(* The version the DEFAULT section of a file gives, if any. *)
DefaultVersions(ls) ==
    {ls[j].val : j \in {j \in 1..Len(ls) :
        /\ ls[j].kind = "opt"
        /\ ls[j].key = VERSION
        /\ \E i \in 1..(j - 1) :
              /\ ls[i] = Sect("DEFAULT")
              /\ \A k \in (i + 1)..(j - 1) : ls[k].kind # "sect"}}

(* Cargo.toml without a package section, or with one that has no version   *)
(* while DEFAULT has none either: the missing-key error, exit 1.           *)
CargoToml_MissingKeyFails ==
    (/\ Terminal
     /\ Parses(CargoToml)
     /\ \/ ~HasPackageSection(CargoToml.lines)
        \/ (PackageVersions(CargoToml.lines) = {} /\ DefaultVersions(CargoToml.lines) = {}))
        => (exc = "KeyError" /\ exit_status = <<1>> /\ stdout = <<>>)

(* A version without a percent sign in the package section of a Cargo.toml *)
(* that parses decides the outcome alone.                                  *)
CargoToml_PlainVersionDecides ==
    (Terminal /\ Parses(CargoToml)) =>
        \A v \in PackageVersions(CargoToml.lines) :
            ~Contains(v, "%") =>
                [stdout |-> stdout, exit_status |-> exit_status] = ReferenceOutcome(v)

====
